---- MODULE Spec2Model ----
(***************************************************************************)
(* A model of rslaser/optics/crystal.py: the Crystal and CrystalSlice      *)
(* elements, their construction from user parameters, and the propagation  *)
(* of a laser pulse through the crystal slices with saturable gain.        *)
(*                                                                         *)
(* Numbers.  Reals are kept as scaled integers where the code compares or  *)
(* branches on them (n0 in hundredths, n2 in thousandths, lengths in units *)
(* of 1/3 mm, cross sections in thousandths of 4.8e-23 m^2, wavelengths in *)
(* nm, grid coordinates in mesh units).  Results of transcendental         *)
(* formulas and of the external numerical kernels (LCT, SRW, splines) are   *)
(* kept as terms: a record of the operation and of the operands it was     *)
(* applied to.  An inversion mesh is its value as built and the sequence   *)
(* of changes added to it since; a gain names the mesh it read by that     *)
(* value and the number of changes the mesh held when it was read.         *)
(***************************************************************************)
EXTENDS Integers, Sequences, FiniteSets, TLC

VARIABLES crystal, pulse, last, ncalls

vars == <<crystal, pulse, last, ncalls>>

---------------------------------------------------------------------------
(* Program constants                                                       *)

\* _N_SLICE_DEFAULT
N_SLICE_DEFAULT == 50
\* _N0_DEFAULT = 1.75, in hundredths
N0_DEFAULT == 175
\* _N2_DEFAULT = 0.001, in thousandths
N2_DEFAULT == 1
\* _CRYSTAL_DEFAULTS.length = 0.2 m, in units of 1/3 mm
LENGTH_DEFAULT == 600
\* _CRYSTAL_DEFAULTS.l_scale
L_SCALE == 1
\* degen_factor = 1.67, in hundredths
DEGEN_FACTOR == 167

---------------------------------------------------------------------------
(* Bounds of the model                                                     *)

\* longest user-supplied n0 / n2 array, and largest user-supplied nslice
MaxNslice == 2
\* number of sub-slices of a laser pulse
MaxSub == 2
\* n_cells of the inversion mesh and nx, ny of a pulse grid built on it
NCells == 2
\* number of CrystalSlice.propagate calls in a behaviour of SpecSeq
MaxCalls == 2

---------------------------------------------------------------------------
(* Small helpers                                                           *)

Min(a, b) == IF a < b THEN a ELSE b

\* the function f, tabulated once: TLC keeps [x \in S |-> e] as the rule e and
\* applies the rule at every f[x] until f is compared with a value
Tabulated(f) == IF f = f THEN f ELSE f

Range(f) == {f[i] : i \in DOMAIN f}

\* all sequences over S of length 0 .. n
SeqsUpTo(S, n) == UNION {[1..k -> S] : k \in 0..n}

\* s[::-1]
Reverse(s) == Tabulated([i \in 1..Len(s) |-> s[Len(s) + 1 - i]])

\* np.linspace(start, fin, n) on integer coordinates
Linspace(start, fin, n) ==
  [k \in 1..n |-> IF n = 1 THEN start
                  ELSE start + ((fin - start) * (k - 1)) \div (n - 1)]

MaxOf(S) == CHOOSE m \in S : \A x \in S : x <= m
MinOf(S) == CHOOSE m \in S : \A x \in S : m <= x

---------------------------------------------------------------------------
(* Crystal._get_params                                                     *)

\* o.get(field) is truthy: the user gave it, and it is not 0 / not empty
Given(o, field) ==
  CASE field = "nslice" -> o.has_nslice /\ o.nslice # 0
    [] field = "n0"     -> o.has_n0 /\ Len(o.n0) > 0
    [] field = "n2"     -> o.has_n2 /\ Len(o.n2) > 0

DefaultScalar(field) == IF field = "n0" THEN N0_DEFAULT ELSE N2_DEFAULT

\* ValidatorBase._get_params: the user's entries over _CRYSTAL_DEFAULTS
SuperGetParams(o) ==
  [nslice    |-> IF o.has_nslice THEN o.nslice ELSE N_SLICE_DEFAULT,
   n0        |-> IF o.has_n0 THEN o.n0 ELSE [j \in 1..N_SLICE_DEFAULT |-> N0_DEFAULT],
   n2        |-> IF o.has_n2 THEN o.n2 ELSE [j \in 1..N_SLICE_DEFAULT |-> N2_DEFAULT],
   length    |-> LENGTH_DEFAULT,
   pump_type |-> o.pump_type]

\* _update_n0_and_n2(params_final, params, field)
UpdateN0AndN2(p, o, field) ==
  IF Len(p[field]) # p.nslice
  THEN IF ~Given(o, field)
       THEN [err |-> "none",
             p   |-> [p EXCEPT ![field] = [j \in 1..p.nslice |-> DefaultScalar(field)]]]
       ELSE [err |-> "ElementException", p |-> p]
  ELSE [err |-> "none", p |-> p]

GetParams(o) ==
  LET p == SuperGetParams(o) IN
  IF ~Given(o, "nslice") /\ ~Given(o, "n0") /\ ~Given(o, "n2")
  THEN [err |-> "none", p |-> p]
  ELSE IF Given(o, "nslice")
  THEN LET r == UpdateN0AndN2(p, o, "n0") IN
       IF r.err # "none" THEN r ELSE UpdateN0AndN2(r.p, o, "n2")
  ELSE [err |-> "none",
        p   |-> IF Len(p.n0) < p.nslice \/ Len(p.n2) < p.nslice
                THEN [p EXCEPT !.nslice = Min(Len(p.n0), Len(p.n2))]
                ELSE p]

---------------------------------------------------------------------------
(* CrystalSlice.__init__ and the pump meshes                               *)

\* The one-sided deposition formula of _left_pump and _right_pump, which
\* are the same expression of z, the slice length and nslice.  z2 = 2 z.
PumpTerm(z2, length, nslice) == [z2 |-> z2, length |-> length, nslice |-> nslice]

LeftPump(s_length, slice_index, nslice) ==
  PumpTerm(s_length * (2 * slice_index + 1), s_length, nslice)

RightPump(s_length, slice_index, nslice) ==
  PumpTerm(s_length * (2 * (nslice - slice_index - 1) + 1), s_length, nslice)

\* left_pump_mesh + right_pump_mesh: an elementwise sum, which commutes
DualPump(s_length, slice_index, nslice) ==
  LET l == LeftPump(s_length, slice_index, nslice)
      r == RightPump(s_length, slice_index, nslice)
  IN  IF l.z2 <= r.z2 THEN <<l, r>> ELSE <<r, l>>

InitializeExcitedStatesMesh(pump_type, s_length, slice_index, nslice) ==
  [base   |-> CASE pump_type = "dual"  -> DualPump(s_length, slice_index, nslice)
                [] pump_type = "left"  -> <<LeftPump(s_length, slice_index, nslice)>>
                [] pump_type = "right" -> <<RightPump(s_length, slice_index, nslice)>>,
   deltas |-> <<>>]

\* CrystalSlice(params=p)
CrystalSliceInit(p) ==
  [length             |-> p.length,
   slice_index        |-> p.slice_index,
   n0                 |-> p.n0,
   n2                 |-> p.n2,
   pump_type          |-> p.pump_type,
   pop_inversion_mesh |-> InitializeExcitedStatesMesh(p.pump_type, p.length,
                                                      p.slice_index, p.nslice)]

---------------------------------------------------------------------------
(* Crystal.__init__                                                        *)

NoCrystal ==
  [constructed |-> FALSE, nslice |-> 0, length |-> 0, pump_type |-> "dual",
   slice |-> <<>>]

\* a faulty variant of N2Negative: only the first entry is examined
N2NegativeFirst(n2) == Len(n2) > 0 /\ n2[1] < 0

\* (np.array(params.n2) < 0.0).any()
N2Negative(n2) == \E j \in 1..Len(n2) : n2[j] < 0

\* the slices the loop appends before it ends or an index is out of range
SlicesBuilt(p) ==
  LET inrange == {j \in 0..(p.nslice - 1) :
                    \A i \in 0..j : i < Len(p.n0) /\ i < Len(p.n2)}
  IN  [k \in 1..Cardinality(inrange) |->
         CrystalSliceInit([n0          |-> p.n0[k],
                           n2          |-> p.n2[k],
                           length      |-> p.length \div p.nslice,
                           slice_index |-> k - 1,
                           nslice      |-> p.nslice,
                           pump_type   |-> p.pump_type])]

\* Crystal(params): the error raised, the object built and the number of
\* CrystalSlice objects constructed on the way
CrystalInit(o) ==
  LET g == GetParams(o) IN
  IF g.err # "none"
  THEN [err |-> g.err, crystal |-> NoCrystal, nbuilt |-> 0]
  ELSE IF N2Negative(g.p.n2)
  THEN [err |-> "ElementException", crystal |-> NoCrystal, nbuilt |-> 0]
  ELSE LET sl == SlicesBuilt(g.p) IN
       IF Len(sl) < g.p.nslice
       THEN [err |-> "IndexError", crystal |-> NoCrystal, nbuilt |-> Len(sl)]
       ELSE [err     |-> "none",
             crystal |-> [constructed |-> TRUE, nslice |-> g.p.nslice,
                          length |-> g.p.length, pump_type |-> g.p.pump_type,
                          slice |-> sl],
             nbuilt  |-> Len(sl)]

---------------------------------------------------------------------------
(* The laser pulse (rslaser.pulse, consumed)                               *)

\* population_inversion.mesh_extent = 0.005 m, in mesh units of 2.5 mm
MESH_EXTENT == 2

Cells == (1..NCells) \X (1..NCells)

NoPulse == [exists |-> FALSE, pulse_direction |-> 0, photon_e_ev |-> 0, slice |-> <<>>]

\* the wavefront grid of a new pulse: the grid of the inversion mesh
\* ("matched"), one that is twice as wide ("wide"), or one that is twice as
\* wide in y only ("tall"), whose y pitch is twice its x pitch
PulseMesh(grid) ==
  LET ex == IF grid = "wide" THEN 2 * MESH_EXTENT ELSE MESH_EXTENT
      ey == IF grid = "matched" THEN MESH_EXTENT ELSE 2 * MESH_EXTENT
  IN  [xStart |-> -ex, xFin |-> ex, nx |-> NCells,
       yStart |-> -ey, yFin |-> ey, ny |-> NCells]

\* sub-slice i (0-based) of a new pulse: photon counts with one empty cell,
\* central wavelength lambda0 [nm], an untouched field
NewPulseSlice(i, lambda0, grid) ==
  [wfr          |-> [mesh |-> PulseMesh(grid), hist |-> <<>>],
   n_photons_2d |-> [base  |-> [c \in Cells |-> IF c = <<1, 1>> THEN 0 ELSE i + 1],
                     gains |-> <<>>,
                     cls   |-> [c \in Cells |-> IF c = <<1, 1>> THEN "zero" ELSE "pos"]],
   lambda0      |-> lambda0,
   photon_e_ev  |-> 1550]

\* a pulse of MaxSub sub-slices; the first one is centred at lambda_first
LaserPulse(direction, lambda_first, grid) ==
  [exists          |-> TRUE,
   pulse_direction |-> direction,
   photon_e_ev     |-> 1550,
   slice           |-> [k \in 1..MaxSub |->
                          NewPulseSlice(k - 1, IF k = 1 THEN lambda_first ELSE 800, grid)]]

---------------------------------------------------------------------------
(* CrystalSlice._interpolate_a_to_b                                        *)

MeshAxis == Linspace(-MESH_EXTENT, MESH_EXTENT, NCells)
WfrAxisX(m) == Linspace(m.xStart, m.xFin, m.nx)
WfrAxisY(m) == Linspace(m.yStart, m.yFin, m.ny)

\* a faulty variant of Resample: the spline whatever the grids
ResampleAlways(temp_array, a_x, a_y, b_x, b_y) ==
  [spline |-> "RectBivariateSpline", src |-> temp_array,
   a_x |-> a_x, a_y |-> a_y, b_x |-> b_x, b_y |-> b_y,
   zero_x |-> {i \in DOMAIN b_x : b_x[i] > MaxOf(Range(a_x))}
                \cup {i \in DOMAIN b_x : b_x[i] < MinOf(Range(a_x))},
   zero_y |-> {i \in DOMAIN b_y : b_y[i] > MaxOf(Range(a_y))}
                \cup {i \in DOMAIN b_y : b_y[i] < MinOf(Range(a_y))}]

\* a faulty variant of Resample: zeroed above the source's range only
ResampleUpperOnly(temp_array, a_x, a_y, b_x, b_y) ==
  IF ~(a_x = b_x /\ a_y = b_y)
  THEN [spline |-> "RectBivariateSpline", src |-> temp_array,
        a_x |-> a_x, a_y |-> a_y, b_x |-> b_x, b_y |-> b_y,
        zero_x |-> {i \in DOMAIN b_x : b_x[i] > MaxOf(Range(a_x))},
        zero_y |-> {i \in DOMAIN b_y : b_y[i] > MaxOf(Range(a_y))}]
  ELSE temp_array

\* lines 915-929: the values unchanged when the grids are equal, else the
\* spline of the source evaluated on b, zeroed outside the source's range
Resample(temp_array, a_x, a_y, b_x, b_y) ==
  IF ~(a_x = b_x /\ a_y = b_y)
  THEN [spline |-> "RectBivariateSpline", src |-> temp_array,
        a_x |-> a_x, a_y |-> a_y, b_x |-> b_x, b_y |-> b_y,
        zero_x |-> {i \in DOMAIN b_x : b_x[i] > MaxOf(Range(a_x))}
                     \cup {i \in DOMAIN b_x : b_x[i] < MinOf(Range(a_x))},
        zero_y |-> {i \in DOMAIN b_y : b_y[i] > MaxOf(Range(a_y))}
                     \cup {i \in DOMAIN b_y : b_y[i] < MinOf(Range(a_y))}]
  ELSE temp_array

\* a faulty variant of InterpolatePopInversionTo: the mesh as built is read,
\* without the changes added to it since
InterpolateBuiltInversionTo(s, lp_wfr) ==
  Resample([s.pop_inversion_mesh EXCEPT !.deltas = <<>>], MeshAxis, MeshAxis,
           WfrAxisX(lp_wfr.mesh), WfrAxisY(lp_wfr.mesh))

\* _interpolate_a_to_b("pop_inversion", lp_wfr)
InterpolatePopInversionTo(s, lp_wfr) ==
  Resample(s.pop_inversion_mesh, MeshAxis, MeshAxis,
           WfrAxisX(lp_wfr.mesh), WfrAxisY(lp_wfr.mesh))

\* _interpolate_a_to_b(change_pop_inversion, "pop_inversion")
InterpolateToPopInversion(change_pop_inversion) ==
  Resample(change_pop_inversion.mesh, change_pop_inversion.x, change_pop_inversion.y,
           MeshAxis, MeshAxis)

\* the array a resampled array was computed from
Src(r) == IF "spline" \in DOMAIN r THEN r.src ELSE r

---------------------------------------------------------------------------
(* CrystalSlice.calc_gain                                                  *)

\* splev(lambda0, cross_section_fn) at the tabulated wavelengths [nm], where
\* the interpolating spline takes the tabulated values (in thousandths of
\* 4.8e-23 m^2)
CrossSection(lambda0) ==
  CASE lambda0 = 600  -> 0
    [] lambda0 = 625  -> 20
    [] lambda0 = 650  -> 75
    [] lambda0 = 700  -> 437
    [] lambda0 = 750  -> 845
    [] lambda0 = 800  -> 990
    [] lambda0 = 850  -> 815
    [] lambda0 = 900  -> 600
    [] lambda0 = 950  -> 415
    [] lambda0 = 1000 -> 276
    [] lambda0 = 1025 -> 255
    [] lambda0 = 1050 -> 247

\* np.where(n_incident_photons > 0), dx * dy being positive
GainCondition(n_photons_2d) == {c \in Cells : n_photons_2d.cls[c] = "pos"}

\* a NaN was added to the mesh (by a gain that divided by zero)
MeshHasNaN(mesh) ==
  \E k \in 1..Len(mesh.deltas) :
    LET d == Src(mesh.deltas[k]) IN
    \E c \in Cells : d.gain.cls[c] = "nan" \/ d.n_cls[c] = "nan"

\* the grids of a resampled array and the rows and columns of it that were
\* set to zero; empty for an array that was not resampled
ZeroFill(r) ==
  IF "spline" \in DOMAIN r
  THEN [a_x |-> r.a_x, a_y |-> r.a_y, b_x |-> r.b_x, b_y |-> r.b_y,
        zero_x |-> r.zero_x, zero_y |-> r.zero_y]
  ELSE [a_x |-> <<>>, a_y |-> <<>>, b_x |-> <<>>, b_y |-> <<>>,
        zero_x |-> {}, zero_y |-> {}]

\* the inversion values a gain was computed from: the slice's mesh as built
\* (base) with the first ndeltas changes added to it, resampled or not
MeshRef(temp_pop_inversion) ==
  [base      |-> Src(temp_pop_inversion).base,
   ndeltas   |-> Len(Src(temp_pop_inversion).deltas),
   nan       |-> MeshHasNaN(Src(temp_pop_inversion)),
   resampled |-> "spline" \in DOMAIN temp_pop_inversion,
   fill      |-> ZeroFill(temp_pop_inversion)]

\* the cells on which degen_factor * cross_sec * n_incident_photons is 0
ZeroDenominator(cross_sec, gain_condition) ==
  {c \in gain_condition : DEGEN_FACTOR * cross_sec = 0}

\* lines 947-958: 0 outside gain_condition, the saturable-gain formula on
\* it; the formula gives NaN (inf * 0) where its denominator is 0
EnergyGain(s, thisSlice, temp_pop_inversion) ==
  LET cross_sec      == CrossSection(thisSlice.lambda0)
      gain_condition == GainCondition(thisSlice.n_photons_2d)
      div0           == ZeroDenominator(cross_sec, gain_condition)
  IN  [cls       |-> Tabulated([c \in Cells |->
                        IF c \notin gain_condition THEN "zero"
                        ELSE IF c \in div0 \/ MeshHasNaN(Src(temp_pop_inversion))
                        THEN "nan" ELSE "formula"]),
       div0      |-> div0,
       cross_sec |-> cross_sec,
       N         |-> MeshRef(temp_pop_inversion),
       length    |-> s.length]

\* n_photons_2d.mesh *= energy_gain
TimesGain(n_photons_2d, energy_gain) ==
  [base  |-> n_photons_2d.base,
   gains |-> Append(n_photons_2d.gains, energy_gain),
   cls   |-> Tabulated([c \in Cells |->
                IF n_photons_2d.cls[c] = "nan" \/ energy_gain.cls[c] = "nan" THEN "nan"
                ELSE IF n_photons_2d.cls[c] = "zero" \/ energy_gain.cls[c] = "zero"
                THEN "zero" ELSE "pos"])]

\* a faulty variant of CalcGain: the photon grid is scaled first, and the
\* inversion change is computed from the scaled grid
CalcGainScaledFirst(s, thisSlice) ==
  LET lp_wfr               == thisSlice.wfr
      temp_pop_inversion   == InterpolatePopInversionTo(s, lp_wfr)
      energy_gain          == EnergyGain(s, thisSlice, temp_pop_inversion)
      scaled               == TimesGain(thisSlice.n_photons_2d, energy_gain)
      change_pop_mesh      == [n      |-> [base  |-> scaled.base,
                                           gains |-> scaled.gains],
                               n_cls  |-> scaled.cls,
                               area   |-> <<lp_wfr.mesh.xFin - lp_wfr.mesh.xStart,
                                            lp_wfr.mesh.nx,
                                            lp_wfr.mesh.yFin - lp_wfr.mesh.yStart,
                                            lp_wfr.mesh.ny>>,
                               gain   |-> energy_gain,
                               length |-> s.length]
      change_pop_inversion == [mesh |-> change_pop_mesh,
                               x    |-> WfrAxisX(lp_wfr.mesh),
                               y    |-> WfrAxisY(lp_wfr.mesh)]
      delta                == InterpolateToPopInversion(change_pop_inversion)
  IN  [s         |-> [s EXCEPT !.pop_inversion_mesh.deltas = Append(@, delta)],
       thisSlice |-> [thisSlice EXCEPT
                        !.n_photons_2d = scaled,
                        !.wfr.hist     = Append(@, [op |-> "gain", gain |-> energy_gain])],
       div0      |-> energy_gain.div0 # {}]

\* calc_gain(thisSlice): the slice with its mesh updated and the sub-slice
\* with its photons and field scaled
CalcGain(s, thisSlice) ==
  LET lp_wfr               == thisSlice.wfr
      temp_pop_inversion   == InterpolatePopInversionTo(s, lp_wfr)
      energy_gain          == EnergyGain(s, thisSlice, temp_pop_inversion)
      change_pop_mesh      == [n      |-> [base  |-> thisSlice.n_photons_2d.base,
                                           gains |-> thisSlice.n_photons_2d.gains],
                               n_cls  |-> thisSlice.n_photons_2d.cls,
                               area   |-> <<lp_wfr.mesh.xFin - lp_wfr.mesh.xStart,
                                            lp_wfr.mesh.nx,
                                            lp_wfr.mesh.yFin - lp_wfr.mesh.yStart,
                                            lp_wfr.mesh.ny>>,
                               gain   |-> energy_gain,
                               length |-> s.length]
      change_pop_inversion == [mesh |-> change_pop_mesh,
                               x    |-> WfrAxisX(lp_wfr.mesh),
                               y    |-> WfrAxisY(lp_wfr.mesh)]
      delta                == InterpolateToPopInversion(change_pop_inversion)
  IN  [s         |-> [s EXCEPT !.pop_inversion_mesh.deltas = Append(@, delta)],
       thisSlice |-> [thisSlice EXCEPT
                        !.n_photons_2d = TimesGain(@, energy_gain),
                        !.wfr.hist     = Append(@, [op |-> "gain", gain |-> energy_gain])],
       div0      |-> energy_gain.div0 # {}]

---------------------------------------------------------------------------
(* CrystalSlice propagation strategies                                     *)

\* one entry of the record of calls made by an operation
Entry(ev, s, sub, div0) ==
  [ev |-> ev, slice |-> s.slice_index, obj |-> "stored", sub |-> sub, div0 |-> div0]

\* line 543: gamma = np.sqrt(n2 / n0), which is 0.0 exactly when n2 is 0
GammaIsZero(n0, n2) == n2 = 0

\* 1 / gamma on a numpy float: inf (and a warning, no exception) at gamma 0
OneOverGamma(n0, n2) == IF GammaIsZero(n0, n2) THEN "inf" ELSE "finite"

\* np.sin(gamma * L_cryst): 0.0 where gamma * L_cryst is 0.0
SinGammaL(n0, n2, L_cryst) ==
  IF GammaIsZero(n0, n2) \/ L_cryst = 0 THEN "zero" ELSE "finite"

\* a product of floats: inf * 0.0 is NaN
FloatTimes(a, b) ==
  CASE a = "nan" \/ b = "nan"                                -> "nan"
    [] (a = "inf" /\ b = "zero") \/ (a = "zero" /\ b = "inf") -> "nan"
    [] a = "inf" \/ b = "inf"                                -> "inf"
    [] a = "zero" \/ b = "zero"                              -> "zero"
    [] OTHER                                                 -> "finite"

\* lines 543-548: the ABCD matrix of the index duct, wavelength- and
\* scale-corrected; gamma = sqrt(n2 / n0).  A, B, C, D tell what kind of
\* float each entry is, and div0 whether 1 / gamma divided by zero
AbcdN0n2Lct(s, photon_e_ev) ==
  [kind |-> "n0n2_lct", n0 |-> s.n0, n2 |-> s.n2, L_cryst |-> s.length,
   photon_e_ev |-> photon_e_ev, l_scale |-> L_SCALE,
   A    |-> IF GammaIsZero(s.n0, s.n2) \/ s.length = 0 THEN "one" ELSE "finite",
   B    |-> FloatTimes(FloatTimes(OneOverGamma(s.n0, s.n2),
                                  SinGammaL(s.n0, s.n2, s.length)),
                       "finite"),
   C    |-> FloatTimes(FloatTimes(IF GammaIsZero(s.n0, s.n2) THEN "zero" ELSE "finite",
                                  SinGammaL(s.n0, s.n2, s.length)),
                       "finite"),
   D    |-> IF GammaIsZero(s.n0, s.n2) \/ s.length = 0 THEN "one" ELSE "finite",
   div0 |-> GammaIsZero(s.n0, s.n2)]

\* lines 687-691: the stored A, B, C, D, wavelength- and scale-corrected
AbcdStored(s, photon_e_ev) ==
  [kind |-> "abcd_lct", photon_e_ev |-> photon_e_ev, l_scale |-> L_SCALE]

\* rslct.apply_lct_2d_sep: the sampling pitch the kernel returns
KernelPitch(d_scale) == d_scale

\* rslct.lct_abscissae(n, h): n samples of pitch h centred on 0
LctAbscissae(n, h) == [k \in 1..n |-> h * ((k - 1) - (n \div 2))]

\* lines 596-628 and 657-662: the grid of the wavefront rebuilt from the
\* kernel's output
LctOutputMesh(m) ==
  LET xvals_slice == WfrAxisX(m)
      yvals_slice == WfrAxisY(m)
      dX_scale    == (xvals_slice[2] - xvals_slice[1]) \div L_SCALE
      dY_scale    == (yvals_slice[2] - yvals_slice[1]) \div L_SCALE
      hx          == KernelPitch(dX_scale) * L_SCALE
      hy          == KernelPitch(dY_scale) * L_SCALE
      \* the input is reshaped (nx, ny) and the output shape is read as (ny, nx)
      ny          == m.nx
      nx          == m.ny
      local_xv    == LctAbscissae(nx, hx)
      local_yv    == LctAbscissae(ny, hy)
  IN  [xStart |-> MinOf(Range(local_xv)), xFin |-> MaxOf(Range(local_xv)), nx |-> nx,
       yStart |-> MinOf(Range(local_xv)), yFin |-> MaxOf(Range(local_xv)), ny |-> ny]

\* lines 560-667: one sub-slice through the LCT kernel
LctStep(thisSlice, abcd_mat_cryst) ==
  [thisSlice EXCEPT
     !.wfr = [mesh |-> LctOutputMesh(@.mesh),
              hist |-> Append(@.hist, [op |-> "lct", abcd |-> abcd_mat_cryst])]]

\* a faulty variant of SrwBeamline: the decomposition whatever n2
SrwBeamlineLens(s) ==
  [kind |-> "lens_drift_lens", L_cryst |-> s.length, n0 |-> s.n0, n2 |-> s.n2]

\* lines 828-861: the beamline of the slice, a drift when n2 == 0
SrwBeamline(s) ==
  IF s.n2 = 0
  THEN [kind |-> "drift", L_cryst |-> s.length, n0 |-> s.n0]
  ELSE [kind |-> "lens_drift_lens", L_cryst |-> s.length, n0 |-> s.n0, n2 |-> s.n2]

\* lines 864-866: srwl.PropagElecField(thisSlice.wfr, optBL), in place
SrwStep(thisSlice, optBL) ==
  [thisSlice EXCEPT !.wfr.hist = Append(@, [op |-> "srw", optBL |-> optBL])]

\* the field transform of a strategy on one sub-slice
FieldStep(strategy, s, thisSlice, photon_e_ev) ==
  CASE strategy = "n0n2_lct" -> LctStep(thisSlice, AbcdN0n2Lct(s, photon_e_ev))
    [] strategy = "abcd_lct" -> LctStep(thisSlice, AbcdStored(s, photon_e_ev))
    [] strategy = "n0n2_srw" -> SrwStep(thisSlice, SrwBeamline(s))
    [] strategy = "gain_calc" -> thisSlice

FieldEvent(strategy) ==
  CASE strategy = "n0n2_lct" -> <<"lct">>
    [] strategy = "abcd_lct" -> <<"lct">>
    [] strategy = "n0n2_srw" -> <<"srw">>
    [] strategy = "gain_calc" -> <<>>

\* the calls one iteration of a strategy's loop makes on sub-slice i
SubSliceEntries(strategy, s, do_gain, i, div0) ==
  (IF do_gain THEN <<Entry("calc_gain", s, i, div0)>> ELSE <<>>)
    \o Tabulated([k \in 1..Len(FieldEvent(strategy)) |->
                     Entry(FieldEvent(strategy)[k], s, i, FALSE)])

\* the loop over the pulse's sub-slices, from sub-slice i (0-based) on:
\* the gain update when do_gain, then the strategy's field transform
RECURSIVE SubSliceLoop(_, _, _, _, _, _)

\* a faulty variant of SubSliceRest: the index the inner interleaving loops
\* of the LCT strategies leave in i (lines 638-645: len(ey_real) - 1) is the
\* one the loop over the sub-slices goes on from
SubSliceRestInnerIndex(strategy, s, laser_pulse, do_gain, i, log, g) ==
  SubSliceLoop(strategy, g.s,
               [laser_pulse EXCEPT
                  !.slice[i + 1] = FieldStep(strategy, g.s, g.thisSlice,
                                             laser_pulse.photon_e_ev)],
               do_gain,
               IF strategy \in {"n0n2_lct", "abcd_lct"}
               THEN g.thisSlice.wfr.mesh.nx * g.thisSlice.wfr.mesh.ny
               ELSE i + 1,
               log \o SubSliceEntries(strategy, s, do_gain, i, g.div0))

\* an iteration from the result g of its gain update on, and the iterations
\* after it
SubSliceRest(strategy, s, laser_pulse, do_gain, i, log, g) ==
  SubSliceLoop(strategy, g.s,
               [laser_pulse EXCEPT
                  !.slice[i + 1] = FieldStep(strategy, g.s, g.thisSlice,
                                             laser_pulse.photon_e_ev)],
               do_gain, i + 1,
               log \o SubSliceEntries(strategy, s, do_gain, i, g.div0))

SubSliceLoop(strategy, s, laser_pulse, do_gain, i, log) ==
  IF i >= Len(laser_pulse.slice)
  THEN [err |-> "none", s |-> s, laser_pulse |-> laser_pulse, log |-> log]
  ELSE SubSliceRest(strategy, s, laser_pulse, do_gain, i, log,
                    IF do_gain
                    THEN CalcGain(s, laser_pulse.slice[i + 1])
                    ELSE [s |-> s, thisSlice |-> laser_pulse.slice[i + 1],
                          div0 |-> FALSE])

Raised(err, s, laser_pulse) ==
  [err |-> err, s |-> s, laser_pulse |-> laser_pulse, log |-> <<>>]

PropagateAttenuate(s, laser_pulse, calc_gain) ==
  Raised("NotImplementedError", s, laser_pulse)

\* a faulty variant of PropagatePlaceholder: the pulse returned untouched
PropagatePlaceholderNoOp(s, laser_pulse, calc_gain) ==
  [err |-> "none", s |-> s, laser_pulse |-> laser_pulse, log |-> <<>>]

PropagatePlaceholder(s, laser_pulse, calc_gain) ==
  Raised("NotImplementedError", s, laser_pulse)

PropagateN0n2Lct(s, laser_pulse, calc_gain) ==
  SubSliceLoop("n0n2_lct", s, laser_pulse, calc_gain, 0, <<>>)

PropagateAbcdLct(s, laser_pulse, calc_gain) ==
  SubSliceLoop("abcd_lct", s, laser_pulse, calc_gain, 0, <<>>)

\* a faulty variant of PropagateN0n2Srw: the gain update whatever calc_gain
PropagateN0n2SrwGain(s, laser_pulse, calc_gain) ==
  SubSliceLoop("n0n2_srw", s, laser_pulse, TRUE, 0, <<>>)

PropagateN0n2Srw(s, laser_pulse, calc_gain) ==
  SubSliceLoop("n0n2_srw", s, laser_pulse, calc_gain, 0, <<>>)

\* a faulty variant of PropagateGainCalc: the gain update only when calc_gain
PropagateGainCalcFlag(s, laser_pulse, calc_gain) ==
  SubSliceLoop("gain_calc", s, laser_pulse, calc_gain, 0, <<>>)

\* calculates gain regardless of the calc_gain parameter's value
PropagateGainCalc(s, laser_pulse, calc_gain) ==
  SubSliceLoop("gain_calc", s, laser_pulse, TRUE, 0, <<>>)

\* Element.propagate, the passthrough of the optical-element base class:
\* every sub-slice's field through the element's own beamline
RECURSIVE ElementLoop(_, _, _, _)
ElementLoop(s, laser_pulse, i, log) ==
  IF i >= Len(laser_pulse.slice)
  THEN [err |-> "none", s |-> s, laser_pulse |-> laser_pulse, log |-> log]
  ELSE ElementLoop(s,
                   [laser_pulse EXCEPT
                      !.slice[i + 1].wfr.hist = Append(@, [op |-> "element"])],
                   i + 1, Append(log, Entry("element", s, i, FALSE)))

PropagateDefault(s, laser_pulse, calc_gain) == ElementLoop(s, laser_pulse, 0, <<>>)

PropTypes ==
  {"attenuate", "placeholder", "abcd_lct", "n0n2_lct", "n0n2_srw", "gain_calc", "default"}

\* a faulty variant of SlicePropagate: an unknown tag falls back to the
\* default passthrough
SlicePropagateFallback(s, laser_pulse, prop_type, calc_gain) ==
  CASE prop_type = "attenuate"   -> PropagateAttenuate(s, laser_pulse, calc_gain)
    [] prop_type = "placeholder" -> PropagatePlaceholder(s, laser_pulse, calc_gain)
    [] prop_type = "abcd_lct"    -> PropagateAbcdLct(s, laser_pulse, calc_gain)
    [] prop_type = "n0n2_lct"    -> PropagateN0n2Lct(s, laser_pulse, calc_gain)
    [] prop_type = "n0n2_srw"    -> PropagateN0n2Srw(s, laser_pulse, calc_gain)
    [] prop_type = "gain_calc"   -> PropagateGainCalc(s, laser_pulse, calc_gain)
    [] OTHER                     -> PropagateDefault(s, laser_pulse, calc_gain)

\* CrystalSlice.propagate: the dispatch on prop_type
SlicePropagate(s, laser_pulse, prop_type, calc_gain) ==
  CASE prop_type = "attenuate"   -> PropagateAttenuate(s, laser_pulse, calc_gain)
    [] prop_type = "placeholder" -> PropagatePlaceholder(s, laser_pulse, calc_gain)
    [] prop_type = "abcd_lct"    -> PropagateAbcdLct(s, laser_pulse, calc_gain)
    [] prop_type = "n0n2_lct"    -> PropagateN0n2Lct(s, laser_pulse, calc_gain)
    [] prop_type = "n0n2_srw"    -> PropagateN0n2Srw(s, laser_pulse, calc_gain)
    [] prop_type = "gain_calc"   -> PropagateGainCalc(s, laser_pulse, calc_gain)
    [] prop_type = "default"     -> PropagateDefault(s, laser_pulse, calc_gain)
    [] OTHER                     -> Raised("KeyError", s, laser_pulse)

---------------------------------------------------------------------------
(* The field samples of a sub-slice                                        *)

\* np.sqrt(energy_gain) on one cell
SqrtGain(cls) ==
  CASE cls = "zero"    -> "zero"
    [] cls = "formula" -> "finite"
    [] cls = "nan"     -> "nan"

\* lines 986-1003: np.float64(re0) * np.sqrt(energy_gain) and the same on
\* the imaginary part, on both components: a float product cell by cell, so
\* that a NaN sample times sqrt(0) stays a NaN
ScaleField(field, energy_gain) ==
  Tabulated([c \in Cells |-> FloatTimes(field[c], SqrtGain(energy_gain.cls[c]))])

\* lines 609-614 and 864-866: the kernel and the beamline compute every
\* output sample from all the input samples (and from the matrix), so one
\* NaN among them makes every output sample a NaN
TransformField(field, nan_matrix) ==
  Tabulated([c \in Cells |->
               IF nan_matrix \/ (\E d \in Cells : field[d] = "nan")
               THEN "nan" ELSE "finite"])

\* the matrix of an LCT step holds a NaN entry
NanMatrix(abcd_mat_cryst) ==
  /\ "B" \in DOMAIN abcd_mat_cryst
  /\ \E f \in {"A", "B", "C", "D"} : abcd_mat_cryst[f] = "nan"

\* the samples after a step e of a sub-slice's history, on the samples field
FieldStepped(field, e) ==
  CASE e.op = "gain" -> ScaleField(field, e.gain)
    [] e.op = "lct"  -> TransformField(field, NanMatrix(e.abcd))
    [] e.op = "srw"  -> TransformField(field, FALSE)
    [] OTHER         -> Tabulated([c \in Cells |->
                                     IF field[c] = "nan" THEN "nan" ELSE "finite"])

\* the kind of float each field sample of a sub-slice is after the first n
\* steps of its history hist; the samples of a new pulse are finite
RECURSIVE FieldAfter(_, _)
FieldAfter(hist, n) ==
  IF n = 0
  THEN Tabulated([c \in Cells |-> "finite"])
  ELSE FieldStepped(FieldAfter(hist, n - 1), hist[n])

---------------------------------------------------------------------------
(* Crystal.propagate                                                       *)

\* a faulty variant of DirectionOk: "== 0.0 or 180.0", which is always true
DirectionOkAlways(pulse_direction) == pulse_direction = 0 \/ TRUE

\* the assertion of lines 132-136
DirectionOk(pulse_direction) == pulse_direction = 0 \/ pulse_direction = 180

\* a faulty variant of SliceArray: the list order whatever the direction
SliceArrayForward(slice, pulse_direction) == slice

\* a faulty variant of SliceArray: self.slice[:0:-1], which leaves slice 0 out
SliceArrayShort(slice, pulse_direction) ==
  IF pulse_direction = 0 THEN slice ELSE Reverse(SubSeq(slice, 2, Len(slice)))

\* lines 138-141: self.slice, or the reversed copy self.slice[::-1]
SliceArray(slice, pulse_direction) ==
  IF pulse_direction = 0 THEN slice ELSE Reverse(slice)

\* a faulty variant of RadialPropTypeOk: the LCT strategy asserted instead
RadialPropTypeLct(prop_type) == prop_type = "n0n2_lct"

\* the assertion of line 147
RadialPropTypeOk(prop_type) == prop_type = "n0n2_srw"

\* laser_pulse.resize_laser_mesh() and laser_pulse.flatten_phase_edges()
PulseCleanup(laser_pulse) ==
  [laser_pulse EXCEPT
     !.slice = Tabulated([k \in 1..Len(@) |->
                  [@[k] EXCEPT !.wfr.hist = @ \o <<[op |-> "resize_laser_mesh"],
                                                   [op |-> "flatten_phase_edges"]>>]])]

\* what a copy's propagation did to sub-slice k of the pulse: its grid now,
\* and the steps its field went through since the copy was taken
CopyBranch(laser_pulse, copy, k) ==
  [mesh |-> copy.slice[k].wfr.mesh,
   hist |-> SubSeq(copy.slice[k].wfr.hist,
                   Len(laser_pulse.slice[k].wfr.hist) + 1,
                   Len(copy.slice[k].wfr.hist))]

\* laser_pulse.combine_n2_variation(laser_pulse_copies, ...): the blend of
\* the two propagated copies of the pulse
CombineN2Variation(laser_pulse, n2_max, n2_0, s) ==
  [laser_pulse EXCEPT
     !.slice = Tabulated([k \in 1..Len(@) |->
                  [n2_max.slice[k] EXCEPT
                     !.wfr.hist =
                        Append(laser_pulse.slice[k].wfr.hist,
                               [op     |-> "combine_n2_variation",
                                n2_max |-> CopyBranch(laser_pulse, n2_max, k),
                                n2_0   |-> CopyBranch(laser_pulse, n2_0, k),
                                n2     |-> s.n2,
                                pump   |-> s.pump_type])]])]

OnCopy(log) == Tabulated([k \in 1..Len(log) |-> [log[k] EXCEPT !.obj = "copy"]])

\* lines 156-170: the stored slice and the pulse after the two copies were
\* propagated, r_max through the slice and r_0 through its zero-n2 copy
RadialCombine(s, laser_pulse, r_max, r_0) ==
  IF r_max.err # "none"
  THEN [r_max EXCEPT !.laser_pulse = laser_pulse]
  ELSE IF r_0.err # "none"
  THEN [err |-> r_0.err, s |-> r_max.s, laser_pulse |-> laser_pulse,
        log |-> r_max.log \o OnCopy(r_0.log)]
  ELSE [err         |-> "none",
        s           |-> r_max.s,
        laser_pulse |-> CombineN2Variation(laser_pulse, r_max.laser_pulse,
                                           r_0.laser_pulse, s),
        log         |-> r_max.log \o OnCopy(r_0.log)
                          \o <<Entry("combine_n2_variation", s, -1, FALSE)>>]

\* a faulty variant of RadialStep: the zero-n2 slice is copied from s after
\* s has propagated the first pulse copy
RadialStepLateCopy(s, laser_pulse, prop_type, calc_gain) ==
  IF ~RadialPropTypeOk(prop_type)
  THEN Raised("AssertionError", s, laser_pulse)
  ELSE RadialCombine(s, laser_pulse,
                     SlicePropagate(s, laser_pulse, prop_type, calc_gain),
                     SlicePropagate(
                       [SlicePropagate(s, laser_pulse, prop_type, calc_gain).s
                          EXCEPT !.n2 = 0],
                       laser_pulse, prop_type, calc_gain))

\* lines 145-170: one slice of the radial-n2 path; the zero-n2 slice is a
\* deep copy of s taken before s propagates
RadialStep(s, laser_pulse, prop_type, calc_gain) ==
  IF ~RadialPropTypeOk(prop_type)
  THEN Raised("AssertionError", s, laser_pulse)
  ELSE RadialCombine(s, laser_pulse,
                     SlicePropagate(s, laser_pulse, prop_type, calc_gain),
                     SlicePropagate([s EXCEPT !.n2 = 0], laser_pulse, prop_type,
                                    calc_gain))

\* the loop of lines 143-175 from position t of slice_array on
RECURSIVE CrystalLoop(_, _, _, _, _, _, _, _)

\* an iteration from the result r of propagating through the stored slice
\* s on (lines 174-175), and the iterations after it
CrystalLoopRest(c, slice_array, t, prop_type, calc_gain, radial_n2, log, s, r) ==
  IF r.err # "none"
  THEN [err         |-> r.err,
        crystal     |-> [c EXCEPT !.slice[s.slice_index + 1] = r.s],
        laser_pulse |-> r.laser_pulse,
        log         |-> log \o <<Entry("visit", s, -1, FALSE)>> \o r.log]
  ELSE CrystalLoop([c EXCEPT !.slice[s.slice_index + 1] = r.s],
                   slice_array, t + 1, PulseCleanup(r.laser_pulse),
                   prop_type, calc_gain, radial_n2,
                   log \o <<Entry("visit", s, -1, FALSE)>> \o r.log
                       \o <<Entry("resize_laser_mesh", s, -1, FALSE),
                            Entry("flatten_phase_edges", s, -1, FALSE)>>)

\* the element of slice_array at position t is the stored slice object
CrystalLoop(c, slice_array, t, laser_pulse, prop_type, calc_gain, radial_n2, log) ==
  IF t > Len(slice_array)
  THEN [err |-> "none", crystal |-> c, laser_pulse |-> laser_pulse, log |-> log]
  ELSE CrystalLoopRest(c, slice_array, t, prop_type, calc_gain, radial_n2, log,
                       c.slice[slice_array[t].slice_index + 1],
                       IF radial_n2
                       THEN RadialStep(c.slice[slice_array[t].slice_index + 1],
                                       laser_pulse, prop_type, calc_gain)
                       ELSE SlicePropagate(c.slice[slice_array[t].slice_index + 1],
                                           laser_pulse, prop_type, calc_gain))

\* Crystal.propagate(laser_pulse, prop_type, calc_gain, radial_n2)
CrystalPropagate(c, laser_pulse, prop_type, calc_gain, radial_n2) ==
  IF ~DirectionOk(laser_pulse.pulse_direction)
  THEN [err |-> "AssertionError", crystal |-> c, laser_pulse |-> laser_pulse,
        log |-> <<>>]
  ELSE CrystalLoop(c, SliceArray(c.slice, laser_pulse.pulse_direction), 1,
                   laser_pulse, prop_type, calc_gain, radial_n2, <<>>)

---------------------------------------------------------------------------
(* Crystal.calc_n0n2_fenics                                                *)

\* lines 269-277, n0: as computed, reversed, or the mean with its reverse
N0Output(pump_type, n0_slice_array) ==
  CASE pump_type = "right" -> Reverse(n0_slice_array)
    [] pump_type = "left"  -> n0_slice_array
    [] pump_type = "dual"  ->
         [k \in 1..Len(n0_slice_array) |->
            (n0_slice_array[k] + Reverse(n0_slice_array)[k]) \div 2]

\* a faulty variant of N2Output: the dual sum halved, as for n0
N2OutputHalved(pump_type, n2_slice_array) ==
  CASE pump_type = "right" -> Reverse(n2_slice_array)
    [] pump_type = "left"  -> n2_slice_array
    [] pump_type = "dual"  ->
         [k \in 1..Len(n2_slice_array) |->
            (n2_slice_array[k] + Reverse(n2_slice_array)[k]) \div 2]

\* lines 269-277, n2: as computed, reversed, or the sum with its reverse
N2Output(pump_type, n2_slice_array) ==
  CASE pump_type = "right" -> Reverse(n2_slice_array)
    [] pump_type = "left"  -> n2_slice_array
    [] pump_type = "dual"  ->
         [k \in 1..Len(n2_slice_array) |->
            n2_slice_array[k] + Reverse(n2_slice_array)[k]]

\* lines 279-282: every slice takes the entry at its slice_index
SetN(slice, n0_output, n2_output) ==
  [j \in 1..Len(slice) |->
     [slice[j] EXCEPT !.n0 = n0_output[slice[j].slice_index + 1],
                      !.n2 = n2_output[slice[j].slice_index + 1]]]

\* the pump repetition rates the thermal computation has a method for
RepRateKnown(pump_rep_rate) == pump_rep_rate = 1000 \/ pump_rep_rate = 1

\* calc_n0n2_fenics(set_n).  The thermal solve, the quadratic fits and the
\* splines (lines 181-267) are numerical computations outside the model:
\* the per-slice arrays they give, n0_slice_array and n2_slice_array, are
\* inputs.  Nothing in the function examines their sign.
CalcN0n2Fenics(c, set_n, pump_rep_rate, n0_slice_array, n2_slice_array) ==
  IF ~RepRateKnown(pump_rep_rate)
  THEN [err |-> "UnboundLocalError", crystal |-> c, ret |-> <<>>]
  ELSE IF c.nslice = 0
  THEN [err |-> "ZeroDivisionError", crystal |-> c, ret |-> <<>>]
  ELSE LET n0_output == N0Output(c.pump_type, n0_slice_array)
           n2_output == N2Output(c.pump_type, n2_slice_array)
       IN  [err     |-> "none",
            crystal |-> IF set_n
                        THEN [c EXCEPT !.slice = SetN(@, n0_output, n2_output)]
                        ELSE c,
            ret     |-> <<[n0_output |-> n0_output, n2_output |-> n2_output]>>]

---------------------------------------------------------------------------
(* The inputs                                                              *)

N0Vals == {176}
N2Vals == {-1, 0, 1}
PumpTypes == {"left", "right", "dual"}
Directions == {0, 90, 180}
Lambdas == {600, 800}
Grids == {"matched", "wide", "tall"}
\* the prop_type tags of CrystalSlice.propagate, and one it does not know
PropTags == PropTypes \cup {"bogus"}
\* the strategies that propagate or amplify the pulse
Strategies == {"abcd_lct", "n0n2_lct", "n0n2_srw", "gain_calc"}

\* the user's params: nslice, n0, n2 given or not, and the pump type
UserParams ==
  {o \in [has_nslice : BOOLEAN, nslice : 0..MaxNslice,
          has_n0 : BOOLEAN, n0 : SeqsUpTo(N0Vals, MaxNslice),
          has_n2 : BOOLEAN, n2 : SeqsUpTo(N2Vals, MaxNslice),
          pump_type : PumpTypes] :
     /\ (~o.has_nslice => o.nslice = 0)
     /\ (~o.has_n0 => o.n0 = <<>>)
     /\ (~o.has_n2 => o.n2 = <<>>)}

NoArgs == [prop_type |-> "", calc_gain |-> FALSE, radial_n2 |-> FALSE, j |-> 0]

NoLast ==
  [op |-> "none", err |-> "none", o |-> <<>>, nbuilt |-> 0, args |-> NoArgs,
   log |-> <<>>, ret |-> <<>>, pre_crystal |-> NoCrystal, pre_pulse |-> NoPulse]

---------------------------------------------------------------------------
(* The operations                                                          *)

Init ==
  /\ crystal = NoCrystal
  /\ pulse = NoPulse
  /\ last = NoLast
  /\ ncalls = 0

\* crystal = Crystal(o)
Construct(o) ==
  /\ ~crystal.constructed
  /\ last.op = "none"
  /\ LET r == CrystalInit(o) IN
     /\ crystal' = r.crystal
     /\ last' = [NoLast EXCEPT !.op = "Crystal.__init__", !.err = r.err,
                               !.o = <<o>>, !.nbuilt = r.nbuilt]
  /\ UNCHANGED <<pulse, ncalls>>

\* pulse = LaserPulse(...)
NewPulse(direction, lambda_first, grid) ==
  /\ crystal.constructed
  /\ crystal.nslice <= MaxNslice
  /\ ~pulse.exists
  /\ pulse' = LaserPulse(direction, lambda_first, grid)
  /\ last' = [NoLast EXCEPT !.op = "LaserPulse"]
  /\ UNCHANGED <<crystal, ncalls>>

\* pulse = crystal.propagate(pulse, prop_type, calc_gain, radial_n2)
CrystalPropagateCall(prop_type, calc_gain, radial_n2) ==
  /\ crystal.constructed
  /\ pulse.exists
  /\ LET r == CrystalPropagate(crystal, pulse, prop_type, calc_gain, radial_n2) IN
     /\ crystal' = r.crystal
     /\ pulse' = r.laser_pulse
     /\ last' = [NoLast EXCEPT
                   !.op = "Crystal.propagate", !.err = r.err, !.log = r.log,
                   !.args = [prop_type |-> prop_type, calc_gain |-> calc_gain,
                             radial_n2 |-> radial_n2, j |-> 0],
                   !.pre_crystal = crystal, !.pre_pulse = pulse]
  /\ ncalls' = ncalls + 1

\* pulse = crystal.slice[j].propagate(pulse, prop_type, calc_gain)
SlicePropagateCall(j, prop_type, calc_gain) ==
  /\ crystal.constructed
  /\ pulse.exists
  /\ j \in 0..(Len(crystal.slice) - 1)
  /\ LET r == SlicePropagate(crystal.slice[j + 1], pulse, prop_type, calc_gain) IN
     /\ crystal' = [crystal EXCEPT !.slice[j + 1] = r.s]
     /\ pulse' = r.laser_pulse
     /\ last' = [NoLast EXCEPT
                   !.op = "CrystalSlice.propagate", !.err = r.err, !.log = r.log,
                   !.args = [prop_type |-> prop_type, calc_gain |-> calc_gain,
                             radial_n2 |-> FALSE, j |-> j],
                   !.pre_crystal = crystal, !.pre_pulse = pulse]
  /\ ncalls' = ncalls + 1

\* A single pass: a crystal is built, a pulse is made, and one propagation
\* call is made, on the crystal or on one of its slices.
Next ==
  \/ \E o \in UserParams : Construct(o)
  \/ \E d \in Directions, l \in Lambdas, g \in Grids : NewPulse(d, l, g)
  \/ \E p \in PropTags, cg \in BOOLEAN, rn \in BOOLEAN :
       ncalls = 0 /\ CrystalPropagateCall(p, cg, rn)
  \/ \E j \in 0..(MaxNslice - 1), p \in PropTags, cg \in BOOLEAN :
       ncalls = 0 /\ SlicePropagateCall(j, p, cg)

Spec == Init /\ [][Next]_vars

---------------------------------------------------------------------------
(* Repeated propagation: a crystal built with nslice given, a pulse, and   *)
(* up to MaxCalls propagation calls, each on the pulse the last returned   *)

SeqParams ==
  {o \in UserParams : /\ o.has_nslice /\ o.nslice > 0
                      /\ ~o.has_n0 /\ ~o.has_n2
                      /\ o.pump_type = "dual"}

InitSeq ==
  /\ crystal \in {CrystalInit(o).crystal : o \in SeqParams}
  /\ pulse \in {LaserPulse(0, 800, "wide"), LaserPulse(180, 800, "matched")}
  /\ last = [NoLast EXCEPT !.op = "LaserPulse"]
  /\ ncalls = 0

NextSeq ==
  \/ \E p \in Strategies, cg \in BOOLEAN :
       ncalls < MaxCalls /\ CrystalPropagateCall(p, cg, FALSE)
  \/ \E j \in 0..(MaxNslice - 1), p \in Strategies, cg \in BOOLEAN :
       ncalls < MaxCalls /\ SlicePropagateCall(j, p, cg)

SpecSeq == InitSeq /\ [][NextSeq]_vars

---------------------------------------------------------------------------
(* Index computation: a crystal of up to MaxNslice slices, a pulse, the    *)
(* index computation as the first call or not at all, and propagation      *)
(* through the ray beamline, up to MaxCalls calls in all                   *)

\* the arrays the thermal computation may give for n slices
FenicsN0Arrays(n) ==
  {[k \in 1..n |-> 174], [k \in 1..n |-> IF k = 1 THEN 174 ELSE 178]}
FenicsN2Vals == {-1, 0, 2}
FenicsN2Arrays(n) == [1..n -> FenicsN2Vals]
RepRates == {1, 50, 1000}

\* n0_output, n2_output, _ = crystal.calc_n0n2_fenics(set_n)
CalcN0n2FenicsCall(set_n, pump_rep_rate, n0_slice_array, n2_slice_array) ==
  /\ crystal.constructed
  /\ Len(n0_slice_array) = crystal.nslice
  /\ Len(n2_slice_array) = crystal.nslice
  /\ LET r == CalcN0n2Fenics(crystal, set_n, pump_rep_rate,
                             n0_slice_array, n2_slice_array) IN
     /\ crystal' = r.crystal
     /\ last' = [NoLast EXCEPT
                   !.op = "calc_n0n2_fenics", !.err = r.err, !.ret = r.ret,
                   !.o = <<[set_n |-> set_n, pump_rep_rate |-> pump_rep_rate,
                            n0_slice_array |-> n0_slice_array,
                            n2_slice_array |-> n2_slice_array]>>,
                   !.pre_crystal = crystal, !.pre_pulse = pulse]
  /\ ncalls' = ncalls + 1
  /\ UNCHANGED pulse

InitFenics ==
  /\ crystal \in {CrystalInit(o).crystal :
                    o \in {u \in UserParams : /\ CrystalInit(u).err = "none"
                                              /\ CrystalInit(u).crystal.nslice <= MaxNslice}}
  /\ pulse = LaserPulse(0, 800, "matched")
  /\ last = [NoLast EXCEPT !.op = "LaserPulse"]
  /\ ncalls = 0

NextFenics ==
  \/ \E set_n \in BOOLEAN, rr \in RepRates,
        a0 \in FenicsN0Arrays(crystal.nslice), a2 \in FenicsN2Arrays(crystal.nslice) :
       ncalls = 0 /\ CalcN0n2FenicsCall(set_n, rr, a0, a2)
  \/ \E rn \in BOOLEAN :
       ncalls < MaxCalls /\ CrystalPropagateCall("n0n2_srw", FALSE, rn)

SpecFenics == InitFenics /\ [][NextFenics]_vars

---------------------------------------------------------------------------
(* Properties                                                              *)

AfterConstruct == last.op = "Crystal.__init__"
AfterCrystalPropagate == last.op = "Crystal.propagate"
AfterSlicePropagate == last.op = "CrystalSlice.propagate"

\* the events ev of a call record, as <<slice index, sub-slice index>>
Calls(log, ev) ==
  LET sel == SelectSeq(log, LAMBDA e : e.ev = ev)
  IN  [k \in 1..Len(sel) |-> <<sel[k].slice, sel[k].sub>>]

\* the inversion meshes of a crystal's slices, in list order
Meshes(c) == [j \in 1..Len(c.slice) |-> c.slice[j].pop_inversion_mesh]

\* C1: constructing a Crystal whose resolved n2 array holds a negative value
\* at any position raises ElementException and constructs no CrystalSlice.
C1_NegativeN2Rejected ==
  AfterConstruct =>
    LET g == GetParams(last.o[1]) IN
    (g.err = "none" /\ \E j \in 1..Len(g.p.n2) : g.p.n2[j] < 0)
      => /\ last.err = "ElementException"
         /\ last.nbuilt = 0
         /\ ~crystal.constructed

\* a construction rejected for a negative n2 in the last of several entries
C1_Witness ==
  /\ AfterConstruct
  /\ LET g == GetParams(last.o[1]) IN
     /\ g.err = "none"
     /\ g.p.nslice = MaxNslice
     /\ Len(g.p.n2) = MaxNslice
     /\ g.p.n2[MaxNslice] < 0
     /\ \A j \in 1..(MaxNslice - 1) : g.p.n2[j] >= 0
  /\ last.err = "ElementException"
  /\ last.nbuilt = 0

\* C2: Crystal.propagate with a pulse direction that is neither 0 nor 180
\* fails before any slice is visited: it makes no call on a slice or on the
\* pulse, and the crystal and the pulse are as they were.
C2_BadDirectionFailsFirst ==
  (AfterCrystalPropagate /\ last.pre_pulse.pulse_direction \notin {0, 180})
    => /\ last.err = "AssertionError"
       /\ last.log = <<>>
       /\ crystal = last.pre_crystal
       /\ pulse = last.pre_pulse

\* a gain-enabled propagation refused for its pulse direction
C2_Witness ==
  /\ AfterCrystalPropagate
  /\ last.pre_pulse.pulse_direction = 90
  /\ last.args.prop_type = "n0n2_srw"
  /\ last.args.calc_gain
  /\ Len(crystal.slice) = MaxNslice
  /\ last.err = "AssertionError"

\* C3: a Crystal.propagate that returns has visited every slice exactly
\* once, slice 0 .. nslice-1 for direction 0 and nslice-1 .. 0 for direction
\* 180, and the crystal's stored slice list keeps its order.
C3_VisitOrder ==
  (AfterCrystalPropagate /\ last.err = "none")
    => LET n      == Len(last.pre_crystal.slice)
           visits == Calls(last.log, "visit")
       IN  /\ Len(visits) = n
           /\ (last.pre_pulse.pulse_direction = 0
                 => \A k \in 1..n : visits[k][1] = k - 1)
           /\ (last.pre_pulse.pulse_direction = 180
                 => \A k \in 1..n : visits[k][1] = n - k)
           /\ Len(crystal.slice) = n
           /\ \A j \in 1..n : crystal.slice[j].slice_index = j - 1

\* a backward pass over several slices that returned
C3_Witness ==
  /\ AfterCrystalPropagate
  /\ last.err = "none"
  /\ last.pre_pulse.pulse_direction = 180
  /\ Len(crystal.slice) = MaxNslice
  /\ Calls(last.log, "visit")[1][1] = MaxNslice - 1

\* entry j of the n0 and n2 arrays equals entry nslice-1-j
Palindromic(c) ==
  \A j \in 1..Len(c.slice) :
    /\ c.slice[j].n0 = c.slice[Len(c.slice) + 1 - j].n0
    /\ c.slice[j].n2 = c.slice[Len(c.slice) + 1 - j].n2

\* the inversion mesh of slice j equals that of slice nslice-1-j
MirrorMeshes(c) ==
  \A j \in 1..Len(c.slice) :
    c.slice[j].pop_inversion_mesh = c.slice[Len(c.slice) + 1 - j].pop_inversion_mesh

\* the last call runs no gain update
GainFree(args) == ~args.calc_gain /\ args.prop_type # "gain_calc"

\* the last Crystal.propagate call, made again from the same crystal state on
\* the same pulse travelling in direction 0
ForwardRun ==
  CrystalPropagate(last.pre_crystal, [last.pre_pulse EXCEPT !.pulse_direction = 0],
                   last.args.prop_type, last.args.calc_gain, last.args.radial_n2)

BackwardOverPalindrome ==
  /\ AfterCrystalPropagate
  /\ last.err = "none"
  /\ last.pre_pulse.pulse_direction = 180
  /\ Palindromic(last.pre_crystal)

SameAsForward == ForwardRun.err = "none" /\ ForwardRun.laser_pulse.slice = pulse.slice

RadialRequested ==
  /\ AfterCrystalPropagate
  /\ last.args.radial_n2
  /\ last.pre_pulse.pulse_direction \in {0, 180}
  /\ Len(last.pre_crystal.slice) >= 1

C6_UnsupportedRaise ==
  (AfterSlicePropagate /\ last.args.prop_type \in {"attenuate", "placeholder"})
    => /\ last.err = "NotImplementedError"
       /\ last.log = <<>>
       /\ pulse = last.pre_pulse
       /\ crystal = last.pre_crystal

\* a placeholder propagation with calc_gain set, refused
C6_Witness ==
  /\ AfterSlicePropagate
  /\ last.args.prop_type = "placeholder"
  /\ last.args.calc_gain
  /\ last.err = "NotImplementedError"

\* C7: a propagate call with calc_gain = False under 'abcd_lct', 'n0n2_lct'
\* or 'n0n2_srw', on a slice or on the crystal, leaves every slice's
\* inversion mesh as it was before the call, whatever calls came before it.
C7_MeshOnlyByGain ==
  ( /\ AfterCrystalPropagate \/ AfterSlicePropagate
    /\ ~last.args.calc_gain
    /\ last.args.prop_type \in {"abcd_lct", "n0n2_lct", "n0n2_srw"} )
    => Meshes(crystal) = Meshes(last.pre_crystal)

\* a gain-free pass over a crystal whose meshes an earlier call has changed
C7_Witness ==
  /\ AfterCrystalPropagate
  /\ ncalls = MaxCalls
  /\ ~last.args.calc_gain
  /\ last.args.prop_type = "n0n2_srw"
  /\ last.err = "none"
  /\ \A j \in 1..Len(crystal.slice) : crystal.slice[j].pop_inversion_mesh.deltas # <<>>
  /\ Meshes(crystal) = Meshes(last.pre_crystal)

\* C8: the k-th change ever added to a slice's inversion mesh comes from a
\* gain computed on the mesh as built plus the k-1 changes added before it,
\* within a call and across calls, and a call never drops a change.
C8_MeshAccumulates ==
  \A j \in 1..Len(crystal.slice) :
    LET m == crystal.slice[j].pop_inversion_mesh IN
    /\ \A k \in 1..Len(m.deltas) :
         /\ Src(m.deltas[k]).gain.N.base = m.base
         /\ Src(m.deltas[k]).gain.N.ndeltas = k - 1
    /\ (AfterCrystalPropagate \/ AfterSlicePropagate)
         => LET before == last.pre_crystal.slice[j].pop_inversion_mesh IN
            /\ Len(before.deltas) <= Len(m.deltas)
            /\ before.deltas = SubSeq(m.deltas, 1, Len(before.deltas))

\* a slice whose mesh holds the changes of two gain-enabled calls
C8_Witness ==
  /\ AfterSlicePropagate
  /\ ncalls = 2
  /\ last.args.calc_gain
  /\ \E j \in 1..Len(crystal.slice) :
       /\ Len(crystal.slice[j].pop_inversion_mesh.deltas) = 2 * MaxSub
       /\ Len(last.pre_crystal.slice[j].pop_inversion_mesh.deltas) = MaxSub

\* C9: CrystalSlice.propagate with prop_type 'gain_calc' calls calc_gain
\* once on every pulse sub-slice, in index order, for either calc_gain, and
\* makes no field-propagation call.
C9_GainCalcUnconditional ==
  (AfterSlicePropagate /\ last.args.prop_type = "gain_calc")
    => LET n == Len(last.pre_pulse.slice) IN
       /\ last.err = "none"
       /\ Calls(last.log, "calc_gain") = [k \in 1..n |-> <<last.args.j, k - 1>>]
       /\ Len(last.log) = n
       /\ \A k \in 1..n :
            LET before == last.pre_pulse.slice[k].wfr.hist
                after  == pulse.slice[k].wfr.hist
            IN  /\ Len(after) = Len(before) + 1
                /\ after[Len(after)].op = "gain"

\* a gain_calc propagation with calc_gain = False that updated every sub-slice
C9_Witness ==
  /\ AfterSlicePropagate
  /\ last.args.prop_type = "gain_calc"
  /\ ~last.args.calc_gain
  /\ Len(Calls(last.log, "calc_gain")) = MaxSub
  /\ crystal # last.pre_crystal

\* C10 as stated: no calc_gain of any call divides by zero, whatever the
\* photon grid and the central wavelength of the sub-slice.
C10_AsStated ==
  \A k \in 1..Len(last.log) : last.log[k].ev = "calc_gain" => ~last.log[k].div0

\* the slices a returned call propagated the pulse through, in visit order
Visited ==
  IF AfterSlicePropagate
  THEN <<last.pre_crystal.slice[last.args.j + 1]>>
  ELSE LET v == SelectSeq(last.log, LAMBDA e : e.ev = "visit")
       IN  [t \in 1..Len(v) |-> last.pre_crystal.slice[v[t].slice + 1]]

\* the beamlines sub-slice k of the pulse went through, in order
SrwEvents(k) == SelectSeq(pulse.slice[k].wfr.hist, LAMBDA e : e.op = "srw")

SrwReturned ==
  /\ AfterSlicePropagate \/ AfterCrystalPropagate
  /\ last.args.prop_type = "n0n2_srw"
  /\ ~last.args.radial_n2
  /\ last.err = "none"

\* C11: under 'n0n2_srw' a slice whose n2 is exactly 0 sends every pulse
\* sub-slice through a single drift of length L_cryst / n0; the beamline is
\* built from L_cryst and n0 alone, without gamma and without the
\* lens-drift-lens decomposition.
C11_ZeroN2PureDrift ==
  SrwReturned =>
    \A k \in 1..Len(pulse.slice) :
      /\ Len(SrwEvents(k)) = Len(Visited)
      /\ \A t \in 1..Len(Visited) :
           Visited[t].n2 = 0 =>
             SrwEvents(k)[t].optBL = [kind    |-> "drift",
                                      L_cryst |-> Visited[t].length,
                                      n0      |-> Visited[t].n0]

\* a crystal pass under 'n0n2_srw' over a slice with n2 = 0 and one without
C11_Witness ==
  /\ SrwReturned
  /\ AfterCrystalPropagate
  /\ \E t \in 1..Len(Visited) : Visited[t].n2 = 0
  /\ \E t \in 1..Len(Visited) : Visited[t].n2 # 0
  /\ \A k \in 1..Len(pulse.slice) : Len(SrwEvents(k)) = 2

\* the LCT steps sub-slice k of the pulse went through, in order
LctEvents(k) == SelectSeq(pulse.slice[k].wfr.hist, LAMBDA e : e.op = "lct")

\* C12 as stated: under 'n0n2_lct' a slice with n2 = 0 (n0 > 0, L > 0) builds
\* the pure-drift matrix A = D = 1, B = L * lambda / l_scale^2 (a finite
\* number), C = 0, and no entry comes from a division by gamma = 0.
C12_AsStated ==
  \A k \in 1..Len(pulse.slice) :
    \A t \in 1..Len(LctEvents(k)) :
      LET m == LctEvents(k)[t].abcd IN
      (m.kind = "n0n2_lct" /\ m.n2 = 0 /\ m.n0 > 0 /\ m.L_cryst > 0)
        => /\ m.A = "one" /\ m.D = "one"
           /\ m.B = "finite"
           /\ m.C = "zero"
           /\ ~m.div0

\* the user's params of the last construction
UserO == last.o[1]

\* a user-supplied array whose length differs from the user's nslice
LengthMismatch(o) ==
  \/ o.has_n0 /\ Len(o.n0) # o.nslice
  \/ o.has_n2 /\ Len(o.n2) # o.nslice

\* C13 as stated: when the user supplies nslice (a positive one), a
\* user-supplied n0 or n2 array of another length makes the construction fail
\* with the parameter-length error before any slice is built, and a field the
\* user did not supply is the default scalar repeated nslice times.
C13_AsStated ==
  (AfterConstruct /\ UserO.has_nslice /\ UserO.nslice > 0) =>
    /\ LengthMismatch(UserO) =>
         /\ last.err = "ElementException"
         /\ last.nbuilt = 0
         /\ ~crystal.constructed
    /\ crystal.constructed =>
         /\ Len(crystal.slice) = UserO.nslice
         /\ ~UserO.has_n0 => \A j \in 1..Len(crystal.slice) : crystal.slice[j].n0 = N0_DEFAULT
         /\ ~UserO.has_n2 => \A j \in 1..Len(crystal.slice) : crystal.slice[j].n2 = N2_DEFAULT

\* the sum of the lengths of the first n slices of a list
RECURSIVE SumLengths(_, _)
SumLengths(slice, n) == IF n = 0 THEN 0 ELSE SumLengths(slice, n - 1) + slice[n].length

\* C14 as stated: a constructed Crystal holds exactly nslice slices, the one
\* at list position j with slice_index = j, n0 = n0[j], n2 = n2[j] and
\* length = crystal length / nslice, and the slice lengths sum to the crystal
\* length.
C14_AsStated ==
  (AfterConstruct /\ crystal.constructed) =>
    LET p == GetParams(UserO).p IN
    /\ crystal.nslice = p.nslice
    /\ Len(crystal.slice) = crystal.nslice
    /\ \A j \in 0..(crystal.nslice - 1) :
         /\ crystal.slice[j + 1].slice_index = j
         /\ crystal.slice[j + 1].n0 = p.n0[j + 1]
         /\ crystal.slice[j + 1].n2 = p.n2[j + 1]
         /\ crystal.slice[j + 1].length * crystal.nslice = crystal.length
    /\ SumLengths(crystal.slice, Len(crystal.slice)) = crystal.length

\* C15 as stated: when the user supplies n0 and/or n2 but no nslice and a
\* resolved array is shorter than the default slice count, nslice becomes
\* min(len(n0), len(n2)); the resolved nslice exceeds the length of neither
\* array, and no n0[j] or n2[j] access of the constructor is out of range.
C15_AsStated ==
  (AfterConstruct /\ ~UserO.has_nslice /\ (UserO.has_n0 \/ UserO.has_n2)) =>
    LET p == GetParams(UserO).p IN
    /\ (Len(p.n0) < N_SLICE_DEFAULT \/ Len(p.n2) < N_SLICE_DEFAULT)
         => p.nslice = Min(Len(p.n0), Len(p.n2))
    /\ p.nslice <= Len(p.n0)
    /\ p.nslice <= Len(p.n2)
    /\ last.err # "IndexError"

\* a returned call of a strategy that leaves the pulse grids as they were
GridKeepingCall ==
  /\ AfterSlicePropagate \/ AfterCrystalPropagate
  /\ last.args.prop_type \in {"gain_calc", "n0n2_srw"}
  /\ last.err = "none"

\* the grid of sub-slice k of the pulse is the grid of the inversion mesh
SameGrid(k) ==
  /\ WfrAxisX(pulse.slice[k].wfr.mesh) = MeshAxis
  /\ WfrAxisY(pulse.slice[k].wfr.mesh) = MeshAxis

\* C16: when the source and destination coordinate arrays are equal on both
\* axes the resampler returns the source values as they are, with no spline
\* and no zero-fill, in both directions: the gain reads the inversion mesh
\* itself, and the change added to the mesh is the change computed on the
\* pulse grid itself.
C16_SameGridIdentity ==
  GridKeepingCall =>
    \A j \in 1..Len(crystal.slice) :
      \A k \in 1..Len(crystal.slice[j].pop_inversion_mesh.deltas) :
        SameGrid(k) =>
          LET d == crystal.slice[j].pop_inversion_mesh.deltas[k] IN
          /\ "spline" \notin DOMAIN d
          /\ d.n.base = last.pre_pulse.slice[k].n_photons_2d.base
          /\ ~d.gain.N.resampled
          /\ d.gain.N.base = last.pre_crystal.slice[j].pop_inversion_mesh.base
          /\ d.gain.N.ndeltas = k - 1

\* a gain update of every sub-slice of a pulse on the inversion mesh's grid
C16_Witness ==
  /\ GridKeepingCall
  /\ \A k \in 1..MaxSub : SameGrid(k)
  /\ \E j \in 1..Len(crystal.slice) :
       Len(crystal.slice[j].pop_inversion_mesh.deltas) = MaxSub

\* the resampled arrays a state holds: the changes added to the inversion
\* meshes (pulse grid to inversion grid) and the inversion values the gains
\* of those changes and of the pulse's fields were computed from (inversion
\* grid to pulse grid)
ResampledChanges ==
  UNION {{ZeroFill(crystal.slice[j].pop_inversion_mesh.deltas[k]) :
            k \in 1..Len(crystal.slice[j].pop_inversion_mesh.deltas)} :
         j \in 1..Len(crystal.slice)}

ResampledInversions ==
  UNION {{pulse.slice[k].wfr.hist[t].gain.N.fill :
            t \in {u \in 1..Len(pulse.slice[k].wfr.hist) :
                     pulse.slice[k].wfr.hist[u].op = "gain"}} :
         k \in 1..Len(pulse.slice)}

\* the destination samples outside the source's range on an axis
Outside(a, b) ==
  {i \in DOMAIN b : \/ \E m \in DOMAIN a : b[i] > a[m] /\ \A n \in DOMAIN a : a[n] <= a[m]
                    \/ \E m \in DOMAIN a : b[i] < a[m] /\ \A n \in DOMAIN a : a[n] >= a[m]}

ZeroFilled(f) ==
  /\ Outside(f.a_x, f.b_x) \subseteq f.zero_x
  /\ Outside(f.a_y, f.b_y) \subseteq f.zero_y

\* C17: when the resampler interpolates, every destination sample whose x
\* lies above the source maximum or below the source minimum, or whose y
\* does, is zero in the result (its row or its column is zeroed), in both
\* resampling directions.
C17_ZeroOutsideSource ==
  /\ \A f \in ResampledChanges : ZeroFilled(f)
  /\ \A f \in ResampledInversions : ZeroFilled(f)

\* an inversion resampled to a pulse grid that reaches below the mesh, and a
\* change resampled from a pulse grid that ends below the mesh's upper edge
C17_Witness ==
  /\ \E f \in ResampledInversions :
       \E i \in DOMAIN f.b_x : f.b_x[i] < MinOf(Range(f.a_x)) /\ i \in f.zero_x
  /\ \E f \in ResampledChanges :
       \E i \in DOMAIN f.b_y : f.b_y[i] > MaxOf(Range(f.a_y)) /\ i \in f.zero_y

\* the kinds of call a record holds
EventsOf(log) == {log[k].ev : k \in 1..Len(log)}

\* C18: CrystalSlice.propagate picks its strategy from the prop_type tag
\* alone.  A tag outside attenuate, placeholder, abcd_lct, n0n2_lct, n0n2_srw,
\* gain_calc, default fails at the call, runs no strategy and changes
\* nothing; the default passthrough runs only under the tag 'default', and
\* each field transform only under its own tags.
C18_DispatchByTag ==
  AfterSlicePropagate =>
    /\ last.args.prop_type \notin {"attenuate", "placeholder", "abcd_lct", "n0n2_lct",
                                   "n0n2_srw", "gain_calc", "default"}
         => /\ last.err = "KeyError"
            /\ last.log = <<>>
            /\ crystal = last.pre_crystal
            /\ pulse = last.pre_pulse
    /\ "element" \in EventsOf(last.log) => last.args.prop_type = "default"
    /\ last.args.prop_type = "default" => EventsOf(last.log) \subseteq {"element"}
    /\ "lct" \in EventsOf(last.log) => last.args.prop_type \in {"abcd_lct", "n0n2_lct"}
    /\ "srw" \in EventsOf(last.log) => last.args.prop_type = "n0n2_srw"

\* a call with a tag the slice does not know, on a pulse with photons
C18_Witness ==
  /\ AfterSlicePropagate
  /\ last.args.prop_type = "bogus"
  /\ last.args.calc_gain
  /\ last.err = "KeyError"
  /\ pulse.exists

\* the gains the field of sub-slice k was multiplied by (as sqrt(gain), on
\* both components), in order
GainEvents(k) == SelectSeq(pulse.slice[k].wfr.hist, LAMBDA e : e.op = "gain")

\* the gains the photon grid of sub-slice k was multiplied by, in order
PhotonGains(k) == pulse.slice[k].n_photons_2d.gains

\* C19: calc_gain applies its updates in order.  The gain of the k-th change
\* of a mesh was computed from the mesh as it was before that call (with k-1
\* changes); the change was computed from the photon grid before that gain
\* scaled it; the change is added to the mesh; the photon grid is then
\* multiplied by the gain, and the field by the square root of the same gain.
C19_GainOrder ==
  /\ \A k \in 1..Len(pulse.slice) :
       /\ Len(GainEvents(k)) = Len(PhotonGains(k))
       /\ \A m \in 1..Len(PhotonGains(k)) : GainEvents(k)[m].gain = PhotonGains(k)[m]
  /\ \A j \in 1..Len(crystal.slice) :
       \A t \in 1..Len(crystal.slice[j].pop_inversion_mesh.deltas) :
         LET d == Src(crystal.slice[j].pop_inversion_mesh.deltas[t]) IN
         /\ d.gain.N.ndeltas = t - 1
         /\ d.gain.N.base = crystal.slice[j].pop_inversion_mesh.base
         /\ \E k \in 1..Len(pulse.slice) :
              /\ d.n.base = pulse.slice[k].n_photons_2d.base
              /\ \E m \in 1..Len(PhotonGains(k)) :
                   /\ PhotonGains(k)[m] = d.gain
                   /\ d.n.gains = SubSeq(PhotonGains(k), 1, m - 1)

\* a sub-slice amplified twice by one slice, in two calls
C19_Witness ==
  /\ ncalls = MaxCalls
  /\ \E k \in 1..Len(pulse.slice) : Len(PhotonGains(k)) >= 2
  /\ \E j \in 1..Len(crystal.slice) :
       Len(crystal.slice[j].pop_inversion_mesh.deltas) = 2 * MaxSub

\* a returned slice-level call of an LCT strategy
LctReturned ==
  /\ AfterSlicePropagate
  /\ last.args.prop_type \in {"n0n2_lct", "abcd_lct"}
  /\ last.err = "none"

\* the sampling pitch of a grid axis
Pitch(axis) == axis[2] - axis[1]

\* C20 as stated: after an LCT propagation the new grid of each sub-slice has
\* x bounds equal to the min and max of the kernel's x abscissae (nx samples
\* of the x pitch) and y bounds equal to the min and max of the kernel's y
\* abscissae (ny samples of the y pitch), also when the two pitches differ.
C20_AsStated ==
  LctReturned =>
    \A k \in 1..Len(pulse.slice) :
      LET m0 == last.pre_pulse.slice[k].wfr.mesh
          m1 == pulse.slice[k].wfr.mesh
          xv == LctAbscissae(m1.nx, Pitch(WfrAxisX(m0)))
          yv == LctAbscissae(m1.ny, Pitch(WfrAxisY(m0)))
      IN  /\ m1.xStart = MinOf(Range(xv)) /\ m1.xFin = MaxOf(Range(xv))
          /\ m1.yStart = MinOf(Range(yv)) /\ m1.yFin = MaxOf(Range(yv))

\* a returned pass of the radial-n2 path
RadialReturned ==
  /\ AfterCrystalPropagate
  /\ last.args.radial_n2
  /\ last.err = "none"

\* the blends sub-slice k of the pulse went through, one per visited slice
CombineEvents(k) ==
  SelectSeq(pulse.slice[k].wfr.hist, LAMBDA e : e.op = "combine_n2_variation")

\* the gains and the beamlines a pulse copy went through in one slice
BranchGains(b) == SelectSeq(b.hist, LAMBDA e : e.op = "gain")
BranchBeamlines(b) == SelectSeq(b.hist, LAMBDA e : e.op = "srw")

\* C21: in the radial-n2 path the zero-n2 slice is a deep copy taken before
\* the stored slice propagates.  The stored slice keeps its n2; the pulse copy
\* sent through the zero-n2 slice is amplified by the inversion mesh as it
\* was before this slice propagated anything (plus the copy's own changes),
\* and goes through the drift; the stored mesh receives the changes of the
\* true-n2 pulse copy only, one per sub-slice.
C21_ZeroN2CopyTakenFirst ==
  RadialReturned =>
    /\ \A j \in 1..Len(crystal.slice) :
         /\ crystal.slice[j].n2 = last.pre_crystal.slice[j].n2
         /\ Len(crystal.slice[j].pop_inversion_mesh.deltas)
              = IF last.args.calc_gain THEN Len(pulse.slice) ELSE 0
    /\ \A k \in 1..Len(pulse.slice) :
         /\ Len(CombineEvents(k)) = Len(Visited)
         /\ \A t \in 1..Len(Visited) :
              LET e == CombineEvents(k)[t] IN
              /\ e.n2 = Visited[t].n2
              /\ Len(BranchBeamlines(e.n2_0)) = 1
              /\ BranchBeamlines(e.n2_0)[1].optBL.kind = "drift"
              /\ Len(BranchBeamlines(e.n2_max)) = 1
              /\ Visited[t].n2 # 0
                   => BranchBeamlines(e.n2_max)[1].optBL.kind = "lens_drift_lens"
              /\ Len(BranchGains(e.n2_0)) = IF last.args.calc_gain THEN 1 ELSE 0
              /\ Len(BranchGains(e.n2_max)) = Len(BranchGains(e.n2_0))
              /\ \A g \in 1..Len(BranchGains(e.n2_0)) :
                   /\ BranchGains(e.n2_0)[g].gain.N.ndeltas = k - 1
                   /\ BranchGains(e.n2_max)[g].gain.N.ndeltas = k - 1
                   /\ BranchGains(e.n2_0)[g].gain.N.base
                        = Visited[t].pop_inversion_mesh.base

\* a radial-n2 pass with gain over two slices whose n2 is not 0
C21_Witness ==
  /\ RadialReturned
  /\ last.args.calc_gain
  /\ Len(Visited) = 2
  /\ \A t \in 1..Len(Visited) : Visited[t].n2 # 0
  /\ \A j \in 1..Len(crystal.slice) :
       Len(crystal.slice[j].pop_inversion_mesh.deltas) = MaxSub

\* C22 as stated: every slice a Crystal holds has n2 >= 0 in every reachable
\* state: after construction, after Crystal.propagate (the radial-n2 path
\* included) and after calc_n0n2_fenics with set_n = True.
C22_AsStated ==
  \A j \in 1..Len(crystal.slice) : crystal.slice[j].n2 >= 0

\* a returned index computation, and its arguments
FenicsReturned == last.op = "calc_n0n2_fenics" /\ last.err = "none"
FenicsIn == last.o[1]
FenicsOut == last.ret[1]

\* C23: calc_n0n2_fenics gives the per-slice arrays by pump type: 'left' as
\* computed, 'right' reversed, 'dual' the mean of the array and its reverse
\* for n0 and their sum, not halved, for n2.  With set_n every slice takes
\* the entry at its slice_index of each output array; without it no slice
\* changes.
C23_IndexAssignment ==
  FenicsReturned =>
    LET n  == crystal.nslice
        a0 == FenicsIn.n0_slice_array
        a2 == FenicsIn.n2_slice_array
    IN  /\ Len(FenicsOut.n0_output) = n /\ Len(FenicsOut.n2_output) = n
        /\ \A k \in 1..n :
             /\ crystal.pump_type = "left"
                  => /\ FenicsOut.n0_output[k] = a0[k]
                     /\ FenicsOut.n2_output[k] = a2[k]
             /\ crystal.pump_type = "right"
                  => /\ FenicsOut.n0_output[k] = a0[n + 1 - k]
                     /\ FenicsOut.n2_output[k] = a2[n + 1 - k]
             /\ crystal.pump_type = "dual"
                  => /\ 2 * FenicsOut.n0_output[k] = a0[k] + a0[n + 1 - k]
                     /\ FenicsOut.n2_output[k] = a2[k] + a2[n + 1 - k]
        /\ FenicsIn.set_n =>
             \A j \in 1..Len(crystal.slice) :
               /\ crystal.slice[j].n0
                    = FenicsOut.n0_output[crystal.slice[j].slice_index + 1]
               /\ crystal.slice[j].n2
                    = FenicsOut.n2_output[crystal.slice[j].slice_index + 1]
               /\ crystal.slice[j].pop_inversion_mesh
                    = last.pre_crystal.slice[j].pop_inversion_mesh
        /\ ~FenicsIn.set_n => crystal = last.pre_crystal

\* a dual-pumped crystal of two slices set from arrays that are not
\* palindromic
C23_Witness ==
  /\ FenicsReturned
  /\ FenicsIn.set_n
  /\ crystal.pump_type = "dual"
  /\ crystal.nslice = 2
  /\ FenicsIn.n0_slice_array[1] # FenicsIn.n0_slice_array[2]
  /\ FenicsIn.n2_slice_array = <<0, 2>>
  /\ crystal.slice[1].n2 = 2 /\ crystal.slice[2].n2 = 2

\* a returned call of an LCT strategy, on the crystal or on one slice
LctCallReturned ==
  /\ last.op \in {"Crystal.propagate", "CrystalSlice.propagate"}
  /\ last.args.prop_type \in {"n0n2_lct", "abcd_lct"}
  /\ last.err = "none"

\* the gain updates and field transforms of a call record that were made on
\* crystal slice j, in order
EntriesOn(log, j) ==
  SelectSeq(log, LAMBDA e : e.slice = j /\ e.ev \in {"calc_gain", "lct"})

\* the crystal slices a call record names
SlicesIn(log) == {log[t].slice : t \in 1..Len(log)}

\* the events one pass of an LCT strategy makes on a pulse of n sub-slices:
\* for sub-slice 0, 1, ..., n-1 in turn, its gain update when calc_gain is
\* set, then its field transform
LctPass(n, calc_gain) ==
  IF calc_gain
  THEN [t \in 1..(2 * n) |-> [ev  |-> IF t % 2 = 1 THEN "calc_gain" ELSE "lct",
                              sub |-> (t - 1) \div 2]]
  ELSE [t \in 1..n |-> [ev |-> "lct", sub |-> t - 1]]

\* the events of a call record, without the slice they were made on
Steps(log) == [t \in 1..Len(log) |-> [ev |-> log[t].ev, sub |-> log[t].sub]]

\* C24: in _propagate_n0n2_lct and _propagate_abcd_lct every sub-slice of the
\* pulse is processed exactly once, in index order 0..n-1, although the inner
\* interleaving loops reassign i; with calc_gain the gain update of a
\* sub-slice comes before its field transform; and the field that is replaced
\* is that of the sub-slice that was read: each sub-slice keeps its identity
\* (its incident photon counts and wavelength) and its field history grows
\* by exactly the steps of this call, the gain before the transform.
C24_EachSubSliceOnceInOrder ==
  LctCallReturned =>
    LET n  == Len(last.pre_pulse.slice)
        cg == last.args.calc_gain
    IN  /\ Len(pulse.slice) = n
        /\ \A j \in SlicesIn(last.log) :
              Steps(EntriesOn(last.log, j)) = LctPass(n, cg)
        /\ AfterSlicePropagate =>
              /\ Steps(last.log) = LctPass(n, cg)
              /\ SlicesIn(last.log) = {last.args.j}
              /\ \A k \in 1..n :
                    LET h0 == last.pre_pulse.slice[k].wfr.hist
                        h1 == pulse.slice[k].wfr.hist
                    IN  /\ pulse.slice[k].n_photons_2d.base
                             = last.pre_pulse.slice[k].n_photons_2d.base
                        /\ pulse.slice[k].lambda0 = last.pre_pulse.slice[k].lambda0
                        /\ Len(h1) = Len(h0) + (IF cg THEN 2 ELSE 1)
                        /\ SubSeq(h1, 1, Len(h0)) = h0
                        /\ h1[Len(h1)].op = "lct"
                        /\ cg => h1[Len(h1) - 1].op = "gain"

\* an LCT call with calc_gain on one slice, made on a pulse of MaxSub
\* sub-slices that an earlier call already transformed
C24_Witness ==
  /\ LctCallReturned
  /\ AfterSlicePropagate
  /\ last.args.calc_gain
  /\ ncalls = MaxCalls
  /\ Len(pulse.slice) = MaxSub
  /\ Len(last.log) = 2 * MaxSub
  /\ \A k \in 1..Len(pulse.slice) : Len(last.pre_pulse.slice[k].wfr.hist) >= 1

\* the positions of the gain updates in the history of sub-slice k
GainSteps(k) ==
  {t \in 1..Len(pulse.slice[k].wfr.hist) : pulse.slice[k].wfr.hist[t].op = "gain"}

\* the cells of sub-slice k whose photon count is exactly 0
ZeroCells(k) == {c \in Cells : pulse.slice[k].n_photons_2d.base[c] = 0}

\* on every cell of a sub-slice with photon count 0, every calc_gain found
\* gain 0 and left the count 0, and the change it computed for the inversion
\* from a count of 0 is 0 (its factor n is 0, its gain is 0 and not NaN, and
\* the length it divides by is not 0)
ZeroCellsUnamplified ==
  /\ \A k \in 1..Len(pulse.slice) :
       \A c \in ZeroCells(k) :
         /\ pulse.slice[k].n_photons_2d.cls[c] = "zero"
         /\ \A t \in GainSteps(k) : pulse.slice[k].wfr.hist[t].gain.cls[c] = "zero"
  /\ \A j \in 1..Len(crystal.slice) :
       \A t \in 1..Len(crystal.slice[j].pop_inversion_mesh.deltas) :
         LET d == Src(crystal.slice[j].pop_inversion_mesh.deltas[t]) IN
         \A c \in Cells :
           d.n.base[c] = 0 => /\ d.n_cls[c] = "zero"
                              /\ d.gain.cls[c] = "zero"
                              /\ d.length # 0

\* a returned slice-level call of the strategy that only amplifies
GainCalcReturned ==
  /\ AfterSlicePropagate
  /\ last.args.prop_type = "gain_calc"
  /\ last.err = "none"

\* calc_gain leaves the grid bounds and the sample counts of the sub-slice
\* as they were
GainKeepsGrid ==
  GainCalcReturned =>
    /\ Len(last.log) = Len(pulse.slice)
    /\ \A k \in 1..Len(pulse.slice) :
         pulse.slice[k].wfr.mesh = last.pre_pulse.slice[k].wfr.mesh

\* after every calc_gain, both field components are 0 on the cells of the
\* sub-slice whose photon count is 0
ZeroCellsFieldZero ==
  \A k \in 1..Len(pulse.slice) :
    \A t \in GainSteps(k) :
      \A c \in ZeroCells(k) :
        FieldAfter(pulse.slice[k].wfr.hist, t)[c] = "zero"

====
